---- MODULE Spec2Model ----
(***************************************************************************)
(* Model of the two slot-machine utilities of the repository:              *)
(*   - WinningCombinations.call  (src/Winning Combinations/src/            *)
(*     winning-combinations.ts)                                            *)
(*   - calculateSlotCadence / handleCadences (src/Cadence/                 *)
(*     SlotMachineCadence.ts)                                              *)
(*                                                                         *)
(* Conventions.  A JavaScript array is a TLA+ sequence; the JavaScript     *)
(* index i is the sequence position i + 1.  Position lists hold the        *)
(* JavaScript (0-based) indexes.  Cadence values are counted in units of   *)
(* 0.25, which every value the code can produce is an exact multiple of.   *)
(* A nullable number is a sequence: <<>> is null, <<v>> is the number v.   *)
(***************************************************************************)
EXTENDS Integers, Sequences, FiniteSets

VARIABLES
    line,       \* the payline handed to WinningCombinations.call
    pc,         \* "ready" | "returned" | "InvalidSymbolError"
    result,     \* the list returned by call (<<>> until it returns)
    symbols,    \* the special symbols handed to calculateSlotCadence
    cadencePc,  \* "ready" | "returned"
    slotCadence,\* the array returned by calculateSlotCadence
    heap,       \* the objects of the cadence module, by reference
    held        \* what each caller of handleCadences holds: its rounds and
                \* the reference it was handed back

vars == <<line, pc, result, symbols, cadencePc, slotCadence, heap, held>>

winningVars == <<line, pc, result>>
cadenceVars == <<symbols, cadencePc, slotCadence>>
handleVars == <<heap, held>>

(***************************************************************************)
(* Bounds of the model.                                                    *)
(***************************************************************************)
MaxLen == 7
MaxSymbols == 3
MaxCalls == 2

Min(S) == CHOOSE x \in S : \A y \in S : x <= y
Max(S) == CHOOSE x \in S : \A y \in S : x >= y

(***************************************************************************)
(* WinningCombinations                                                     *)
(***************************************************************************)
minSequenceLength == 3
wildSymbol == 0
payingSymbols == 1..9
nonPayingSymbols == 10..15

\* The symbols paylines are drawn from: the wild, two paying symbols, one
\* non-paying symbol and one symbol outside the configured universe.
InputSymbols == {0, 1, 2, 10, 99}

Lines == UNION {[1..n -> InputSymbols] : n \in 0..MaxLen}

\* sequences.find found nothing.  Every group of buildSymbolSequences holds
\* at least one index, so no group equals it.
undefined == <<>>

isElegibleSymbol_anyNonWild(symbol) == ~(symbol = wildSymbol)

isElegibleSymbol(symbol) ==
    LET isPayingSymbols == symbol \in payingSymbols
        isWildSymbol == symbol = wildSymbol
    IN  ~isWildSymbol /\ isPayingSymbols

buildAllWildWinningCombinationsResult_fromOne(columnsCount) ==
    << [symbol |-> wildSymbol, positions |-> [i \in 1..columnsCount |-> i]] >>

buildAllWildWinningCombinationsResult(columnsCount) ==
    << [symbol |-> wildSymbol,
        positions |-> [i \in 1..columnsCount |-> i - 1]] >>

replaceWildToSymbolInLine(lineSymbols, symbol) ==
    [i \in 1..Len(lineSymbols) |->
        IF lineSymbols[i] # wildSymbol THEN lineSymbols[i] ELSE symbol]

\* The mutant forgets the adjacency test: every occurrence joins one group.
buildSymbolSequences_noAdjacency(l, symbol) ==
    LET acc[k \in 0..Len(l)] ==
            IF k = 0 THEN <<>>
            ELSE LET prev == acc[k - 1]
                 IN  IF l[k] = symbol
                     THEN IF Len(prev) = 0
                          THEN Append(prev, <<k - 1>>)
                          ELSE [prev EXCEPT ![Len(prev)] = Append(@, k - 1)]
                     ELSE prev
    IN  acc[Len(l)]

\* line.reduce: acc[k] is the accumulator after the elements of index
\* 0..k-1; line[index - 1] at index 0 is undefined, which differs from symbol.
buildSymbolSequences(l, symbol) ==
    LET acc[k \in 0..Len(l)] ==
            IF k = 0 THEN <<>>
            ELSE LET index == k - 1
                     currentSymbol == l[k]
                     prev == acc[k - 1]
                 IN  IF currentSymbol = symbol
                     THEN IF Len(prev) = 0 \/ index = 0 \/ l[k - 1] # symbol
                          THEN Append(prev, <<index>>)
                          ELSE [prev EXCEPT ![Len(prev)] = Append(@, index)]
                     ELSE prev
    IN  acc[Len(l)]

findPaylinePositions_last(sequences) ==
    LET found == {i \in 1..Len(sequences) :
                     Len(sequences[i]) >= minSequenceLength}
    IN  IF found = {} THEN undefined ELSE sequences[Max(found)]

findPaylinePositions(sequences) ==
    LET found == {i \in 1..Len(sequences) :
                     Len(sequences[i]) >= minSequenceLength}
    IN  IF found = {} THEN undefined ELSE sequences[Min(found)]

allSymbols == {wildSymbol} \cup payingSymbols \cup nonPayingSymbols

validateSymbols_some(syms) ==
    Len(syms) = 0 \/ \E i \in 1..Len(syms) : syms[i] \in allSymbols

\* TRUE when validateSymbols returns true, FALSE when it throws.
validateSymbols(syms) ==
    \A i \in 1..Len(syms) : syms[i] \in allSymbols

\* The mutant orders the distinct symbols by value.
uniqueSymbols_sorted(l) ==
    LET S == {l[i] : i \in 1..Len(l)}
        srt[k \in 0..Cardinality(S)] ==
            IF k = 0 THEN <<>>
            ELSE LET prev == srt[k - 1]
                 IN  Append(prev,
                            Min({x \in S : \A j \in 1..(k - 1) : prev[j] # x}))
    IN  srt[Cardinality(S)]

\* [...new Set(line)]: the distinct symbols in the order of first insertion.
uniqueSymbols(l) ==
    LET seen[k \in 0..Len(l)] ==
            IF k = 0 THEN <<>>
            ELSE LET prev == seen[k - 1]
                 IN  IF \E j \in 1..Len(prev) : prev[j] = l[k]
                     THEN prev
                     ELSE Append(prev, l[k])
    IN  seen[Len(l)]

isOnlyWildSymbol_every(unique) ==
    \A i \in 1..Len(unique) : unique[i] = wildSymbol

isOnlyWildSymbol(unique) ==
    Len(unique) = 1 /\ unique[1] = wildSymbol

\* The forEach of call: out[k] is winningCombinationsResult after the first
\* k distinct symbols.
collectCombinations(l, unique) ==
    LET out[k \in 0..Len(unique)] ==
            IF k = 0 THEN <<>>
            ELSE LET winningCombinationsResult == out[k - 1]
                     symbol == unique[k]
                     lineWithReplacedWilds == replaceWildToSymbolInLine(l, symbol)
                     symbolSequences ==
                         buildSymbolSequences(lineWithReplacedWilds, symbol)
                     paylinePositions == findPaylinePositions(symbolSequences)
                 IN  IF ~isElegibleSymbol(symbol) THEN winningCombinationsResult
                     ELSE IF paylinePositions # undefined
                          THEN Append(winningCombinationsResult,
                                      [symbol |-> symbol,
                                       positions |-> paylinePositions])
                          ELSE winningCombinationsResult
    IN  out[Len(unique)]

\* call: thrown tells whether InvalidSymbolError was raised, value is the
\* returned list (nothing is returned when it throws).
call(l) ==
    LET unique == uniqueSymbols(l)
    IN  IF ~validateSymbols(unique)
        THEN [thrown |-> TRUE, value |-> <<>>]
        ELSE IF isOnlyWildSymbol(unique)
             THEN [thrown |-> FALSE,
                   value |-> buildAllWildWinningCombinationsResult(Len(l))]
             ELSE [thrown |-> FALSE, value |-> collectCombinations(l, unique)]

(***************************************************************************)
(* Cadence                                                                 *)
(***************************************************************************)
\* Cadence values are counted in quarters: 0.25 is 1, 2 is 8.
CadenceUnitsPerOne == 4
columnSize == 5
minToAnticipate == 2
maxToAnticipate == 3
anticipateCadence == 2 * CadenceUnitsPerOne
defaultCadence == CadenceUnitsPerOne \div 4

null == <<>>

gameRounds ==
    [roundOne |-> [specialSymbols |-> << [column |-> 0, row |-> 2],
                                         [column |-> 1, row |-> 3],
                                         [column |-> 3, row |-> 4] >>],
     roundTwo |-> [specialSymbols |-> << [column |-> 0, row |-> 2],
                                         [column |-> 0, row |-> 3] >>],
     roundThree |-> [specialSymbols |-> << [column |-> 4, row |-> 2],
                                           [column |-> 4, row |-> 3] >>]]

\* The coordinates special symbols are drawn from: every column of the
\* machine and one column outside it on each side.
Coordinates == [column : (0 - 1)..columnSize, row : {2, 3}]

SymbolLists == UNION {[1..n -> Coordinates] : n \in 0..MaxSymbols}

\* The indexes forEachColumnIndex hands to its callback, in call order.
forEachColumnIndex == [i \in 1..columnSize |-> i - 1]

calculateCumulativeSymbolCountsPerColumn(syms) ==
    LET step[k \in 0..Len(forEachColumnIndex)] ==
            IF k = 0
            THEN [totalCount |-> 0, symbolsAccumulatorPerColumn |-> <<>>]
            ELSE LET prev == step[k - 1]
                     index == forEachColumnIndex[k]
                     symbolsColumnCount ==
                         Cardinality({j \in 1..Len(syms) : syms[j].column = index})
                     totalCount == prev.totalCount + symbolsColumnCount
                 IN  [totalCount |-> totalCount,
                      symbolsAccumulatorPerColumn |->
                          Append(prev.symbolsAccumulatorPerColumn, totalCount)]
    IN  step[Len(forEachColumnIndex)].symbolsAccumulatorPerColumn

calculateCadence_inclusiveMax(previousCadence, previousSymbolsCount) ==
    IF previousCadence = null THEN 0
    ELSE IF /\ previousSymbolsCount # null
            /\ previousSymbolsCount[1] # 0
            /\ previousSymbolsCount[1] >= minToAnticipate
            /\ previousSymbolsCount[1] <= maxToAnticipate
         THEN previousCadence[1] + anticipateCadence
         ELSE previousCadence[1] + defaultCadence

calculateCadence_notCumulative(previousCadence, previousSymbolsCount) ==
    IF previousCadence = null THEN 0
    ELSE IF /\ previousSymbolsCount # null
            /\ previousSymbolsCount[1] # 0
            /\ previousSymbolsCount[1] >= minToAnticipate
            /\ previousSymbolsCount[1] < maxToAnticipate
         THEN anticipateCadence
         ELSE defaultCadence

\* previousSymbolsCount && ... : null and 0 are both falsy.
calculateCadence(previousCadence, previousSymbolsCount) ==
    IF previousCadence = null THEN 0
    ELSE LET isAnticipating ==
                 /\ previousSymbolsCount # null
                 /\ previousSymbolsCount[1] # 0
                 /\ previousSymbolsCount[1] >= minToAnticipate
                 /\ previousSymbolsCount[1] < maxToAnticipate
         IN  IF isAnticipating
             THEN previousCadence[1] + anticipateCadence
             ELSE previousCadence[1] + defaultCadence

\* symbolsAccumulatorPerColumn[index - 1] || null: index -1 reads undefined,
\* and a count of 0 is falsy, so both give null.
calculateSlotCadence(syms) ==
    LET symbolsAccumulatorPerColumn ==
            calculateCumulativeSymbolCountsPerColumn(syms)
        step[k \in 0..Len(forEachColumnIndex)] ==
            IF k = 0
            THEN [previousCadence |-> null, slotCadence |-> <<>>]
            ELSE LET prev == step[k - 1]
                     index == forEachColumnIndex[k]
                     previousSymbolsCount ==
                         IF index - 1 < 0 \/ index - 1 >= Len(symbolsAccumulatorPerColumn)
                         THEN null
                         ELSE IF symbolsAccumulatorPerColumn[index] = 0
                              THEN null
                              ELSE <<symbolsAccumulatorPerColumn[index]>>
                     currentCadence ==
                         calculateCadence(prev.previousCadence, previousSymbolsCount)
                 IN  [previousCadence |-> <<currentCadence>>,
                      slotCadence |-> Append(prev.slotCadence, currentCadence)]
    IN  step[Len(forEachColumnIndex)].slotCadence

\* The module-level object, as the module's line 74 creates it.
slotMachineCadences == [roundOne |-> <<>>, roundTwo |-> <<>>, roundThree |-> <<>>]

\* handleCadences assigns the three fields of the module-level object and
\* returns that object: the heap after the call and the reference returned.
handleCadences(h, rounds) ==
    LET h1 == [h EXCEPT !["slotMachineCadences"].roundOne =
                  calculateSlotCadence(rounds.roundOne.specialSymbols)]
        h2 == [h1 EXCEPT !["slotMachineCadences"].roundTwo =
                  calculateSlotCadence(rounds.roundTwo.specialSymbols)]
        h3 == [h2 EXCEPT !["slotMachineCadences"].roundThree =
                  calculateSlotCadence(rounds.roundThree.specialSymbols)]
    IN  [heap |-> h3, returned |-> "slotMachineCadences"]

\* The heap once the module is loaded: line 74, then the call of line 162.
loadedHeap ==
    handleCadences([o \in {"slotMachineCadences"} |-> slotMachineCadences],
                   gameRounds).heap

\* The round definitions callers hand to handleCadences.
RoundInputs ==
    {gameRounds.roundOne, gameRounds.roundTwo, gameRounds.roundThree}

RoundsInputs ==
    [roundOne : RoundInputs, roundTwo : RoundInputs, roundThree : RoundInputs]

(***************************************************************************)
(* Specifications                                                          *)
(***************************************************************************)
WinningIdle == line = <<>> /\ pc = "idle" /\ result = <<>>
CadenceIdle == symbols = <<>> /\ cadencePc = "idle" /\ slotCadence = <<>>
HandleIdle == heap = loadedHeap /\ held = <<>>

InitWinning ==
    /\ line \in Lines
    /\ pc = "ready"
    /\ result = <<>>
    /\ CadenceIdle
    /\ HandleIdle

Call ==
    /\ pc = "ready"
    /\ LET r == call(line)
       IN  /\ pc' = IF r.thrown THEN "InvalidSymbolError" ELSE "returned"
           /\ result' = r.value
    /\ UNCHANGED <<line, cadenceVars, handleVars>>

NextWinning == Call

SpecWinning == InitWinning /\ [][NextWinning]_vars

InitCadence ==
    /\ symbols \in SymbolLists
    /\ cadencePc = "ready"
    /\ slotCadence = <<>>
    /\ WinningIdle
    /\ HandleIdle

CalculateSlotCadence ==
    /\ cadencePc = "ready"
    /\ cadencePc' = "returned"
    /\ slotCadence' = calculateSlotCadence(symbols)
    /\ UNCHANGED <<symbols, winningVars, handleVars>>

NextCadence == CalculateSlotCadence

SpecCadence == InitCadence /\ [][NextCadence]_vars

InitHandle ==
    /\ heap = loadedHeap
    /\ held = <<>>
    /\ WinningIdle
    /\ CadenceIdle

HandleCadences ==
    /\ Len(held) < MaxCalls
    /\ \E rounds \in RoundsInputs :
          LET r == handleCadences(heap, rounds)
          IN  /\ heap' = r.heap
              /\ held' = Append(held, [rounds |-> rounds, ref |-> r.returned])
    /\ UNCHANGED <<winningVars, cadenceVars>>

NextHandle == HandleCadences

SpecHandle == InitHandle /\ [][NextHandle]_vars

(***************************************************************************)
(* Properties of WinningCombinations.call, stated on the payline itself.   *)
(***************************************************************************)
Called == pc # "ready" /\ pc # "idle"

ValidLine == \A i \in 1..Len(line) : line[i] \in allSymbols

AllWildLine == Len(line) >= 1 /\ \A i \in 1..Len(line) : line[i] = wildSymbol

Occurs(s) == \E i \in 1..Len(line) : line[i] = s

\* The index (0-based) of the first occurrence of s in the payline.
FirstIndex(s) == Min({i \in 1..Len(line) : line[i] = s}) - 1

\* Whether index i (0-based) counts as s once every wild stands for s.
CountsAs(i, s) == line[i + 1] = s \/ line[i + 1] = wildSymbol

\* The maximal runs <<first, last>> of adjacent positions counting as s.
MaximalRuns(s) ==
    {r \in (0..(Len(line) - 1)) \X (0..(Len(line) - 1)) :
        /\ r[1] <= r[2]
        /\ \A i \in r[1]..r[2] : CountsAs(i, s)
        /\ (r[1] = 0 \/ ~CountsAs(r[1] - 1, s))
        /\ (r[2] = Len(line) - 1 \/ ~CountsAs(r[2] + 1, s))}

QualifyingRuns(s) == {r \in MaximalRuns(s) : r[2] - r[1] + 1 >= 3}

Entries(s) == {k \in 1..Len(result) : result[k].symbol = s}

IndexList(first, last) == [i \in 1..(last - first + 1) |-> first + i - 1]

\* C1: a payline holding a symbol outside the wild, paying and non-paying
\* symbols makes call fail with InvalidSymbolError and return no list,
\* wherever the symbol sits and whatever the rest of the payline holds.
C1_InvalidSymbolFails ==
    (Called /\ ~ValidLine) => (pc = "InvalidSymbolError" /\ result = <<>>)

C1_Witness ==
    pc = "InvalidSymbolError" /\ line = <<1, 1, 1, 99>>

\* C2: a payline of length n >= 1 made of wilds only returns exactly one
\* combination, the wild with the positions 0..n-1, also for n < 3.
C2_AllWild ==
    (Called /\ AllWildLine) =>
        /\ pc = "returned"
        /\ Len(result) = 1
        /\ result[1].symbol = wildSymbol
        /\ Len(result[1].positions) = Len(line)
        /\ \A i \in 1..Len(line) : result[1].positions[i] = i - 1

C2_Witness ==
    pc = "returned" /\ line = <<0, 0>> /\ Len(result) = 1

\* C3: for a valid payline that is not all wild and a paying symbol s in it,
\* the result has an entry for s exactly when, wilds counting as s, some
\* maximal run of s is at least 3 long, and the entry then holds the whole
\* leftmost such run; otherwise there is no entry for s.
C3_LeftmostQualifyingRun ==
    (pc = "returned" /\ ~AllWildLine) =>
        \A s \in payingSymbols :
            Occurs(s) =>
                IF QualifyingRuns(s) = {}
                THEN Entries(s) = {}
                ELSE LET first == Min({r[1] : r \in QualifyingRuns(s)})
                         run == CHOOSE r \in QualifyingRuns(s) : r[1] = first
                     IN  /\ Entries(s) # {}
                         /\ \A k \in Entries(s) :
                                result[k].positions = IndexList(run[1], run[2])

C3_Witness ==
    /\ pc = "returned"
    /\ Occurs(wildSymbol)
    /\ \E s \in payingSymbols :
          /\ Occurs(s)
          /\ Cardinality(QualifyingRuns(s)) >= 2
          /\ Entries(s) # {}

\* C4: the result holds at most one entry per symbol, and the entries are
\* in the order in which their symbols first occur in the payline.
C4_OnePerSymbolInDiscoveryOrder ==
    pc = "returned" =>
        /\ \A k \in 1..Len(result) : Occurs(result[k].symbol)
        /\ \A i, j \in 1..Len(result) :
              i < j =>
                  /\ result[i].symbol # result[j].symbol
                  /\ Occurs(result[i].symbol) /\ Occurs(result[j].symbol)
                        => FirstIndex(result[i].symbol) < FirstIndex(result[j].symbol)

C4_Witness ==
    /\ pc = "returned"
    /\ Len(result) = 2
    /\ result[1].positions[1] > result[2].positions[1]

\* C8: in a valid payline without a wild, a symbol whose longest run of
\* consecutive occurrences is shorter than 3 has no entry in the result.
C8_ShortRunNeverWins ==
    (pc = "returned" /\ ~Occurs(wildSymbol)) =>
        \A s \in allSymbols :
            (~\E a \in 1..(Len(line) - 2) :
                  line[a] = s /\ line[a + 1] = s /\ line[a + 2] = s)
                => Entries(s) = {}

C8_Witness ==
    /\ pc = "returned"
    /\ ~Occurs(wildSymbol)
    /\ result = <<>>
    /\ \E s \in payingSymbols :
          /\ Cardinality({i \in 1..Len(line) : line[i] = s}) >= 3
          /\ \E a \in 1..(Len(line) - 1) : line[a] = s /\ line[a + 1] = s

\* C9: for a valid payline that is not all wild, call raises no error and
\* every symbol of the result is a paying symbol; a payline of wilds and
\* non-paying symbols only gives the empty result.
C9_OnlyPayingSymbolsWin ==
    (Called /\ ValidLine /\ ~AllWildLine) =>
        /\ pc = "returned"
        /\ \A k \in 1..Len(result) : result[k].symbol \in payingSymbols
        /\ (\A i \in 1..Len(line) : line[i] \notin payingSymbols) => result = <<>>

C9_Witness ==
    /\ pc = "returned"
    /\ result = <<>>
    /\ Occurs(wildSymbol)
    /\ \E a \in 1..(Len(line) - 2) :
          line[a] = 10 /\ line[a + 1] = 10 /\ line[a + 2] = 10

\* C10: a valid payline of length 0, 1 or 2 that is not all wild returns the
\* empty list without an error; the empty payline is not the all-wild case.
C10_ShortLineEmpty ==
    (Called /\ ValidLine /\ Len(line) <= 2 /\ ~AllWildLine) =>
        (pc = "returned" /\ result = <<>>)

C10_Witness ==
    pc = "returned" /\ line = <<>> /\ result = <<>>

(***************************************************************************)
(* Properties of calculateSlotCadence and handleCadences.                  *)
(***************************************************************************)
\* The number of special symbols in the columns 0..i-1.
SymbolsBefore(i) ==
    Cardinality({j \in 1..Len(symbols) : symbols[j].column \in 0..(i - 1)})

\* C5: cadence[0] = 0 and, for each column i in 1..4, cadence[i] is
\* cadence[i-1] + 2 (8 quarters) when the number of special symbols in the
\* columns 0..i-1 is >= 2 and < 3, and cadence[i-1] + 0.25 (1 quarter)
\* otherwise, also when that number is 0.
C5_CadenceRecurrence ==
    cadencePc = "returned" =>
        /\ Len(slotCadence) >= 5
        /\ slotCadence[1] = 0
        /\ \A i \in 1..4 :
              slotCadence[i + 1] =
                  slotCadence[i] +
                      (IF SymbolsBefore(i) >= 2 /\ SymbolsBefore(i) < 3
                       THEN 8 ELSE 1)

C5_Witness ==
    /\ cadencePc = "returned"
    /\ Len(symbols) = 3
    /\ symbols[1].column = 0 /\ symbols[2].column = 0 /\ symbols[3].column = 1
    /\ slotCadence = <<0, 8, 9, 10, 11>>

\* C6: for every list of special symbols, with columns outside 0..4 or
\* empty, the cadence has exactly 5 entries and never decreases.
C6_FiveEntriesNonDecreasing ==
    cadencePc = "returned" =>
        /\ Len(slotCadence) = 5
        /\ \A i \in 1..4 : slotCadence[i] <= slotCadence[i + 1]

C6_Witness ==
    /\ cadencePc = "returned"
    /\ Len(slotCadence) = 5
    /\ \E j \in 1..Len(symbols) : symbols[j].column \notin 0..4
    /\ \E i \in 1..4 : slotCadence[i + 1] - slotCadence[i] = 8

\* The cadences of the rounds a caller passed.
CadencesOf(rounds) ==
    [roundOne |-> calculateSlotCadence(rounds.roundOne.specialSymbols),
     roundTwo |-> calculateSlotCadence(rounds.roundTwo.specialSymbols),
     roundThree |-> calculateSlotCadence(rounds.roundThree.specialSymbols)]

\* C7: invocations of handleCadences are independent: after any sequence
\* of calls, what an earlier call handed back still shows the cadences of
\* the rounds passed to that call.
C7_EarlierResultsKept ==
    \A k \in 1..Len(held) : heap[held[k].ref] = CadencesOf(held[k].rounds)

====
